---- MODULE Spec2Model ----
(***************************************************************************)
(* Model of src/process.py: the batch transform that reshapes paginated    *)
(* election JSON into an elections table and a voting-methods table.       *)
(*                                                                         *)
(* A JSON mapping (a Python dict) is a function whose DOMAIN is its key    *)
(* set; an absent key is a key outside the DOMAIN.  A list is a sequence.  *)
(* A data frame is a record                                                *)
(*   [err, index, columns, rows]                                           *)
(* with err = "none" and one row (a function over columns) per index       *)
(* entry, or with err naming the exception that ended the call.            *)
(* Names of voting-method fields are sequences of tokens, so that the      *)
(* hyphen-to-underscore renaming is computed and not assumed.              *)
(***************************************************************************)
EXTENDS Integers, Sequences, FiniteSets, TLC

VARIABLES pc, raw, results, elections, methods, files, err, method, flat

vars == <<pc, raw, results, elections, methods, files, err, method, flat>>

-----------------------------------------------------------------------------
(* Bounds of the model *)

MaxId == 2
MaxResults == 2
MaxMethods == 2
ExtMaxPages == 2
ExtMaxPageLen == 2

-----------------------------------------------------------------------------
(* Generic helpers over mappings, sequences and frames *)

NaN == "NaN"

EmptyMap == [k \in {} |-> NaN]

Range(s) == {s[i] : i \in 1..Len(s)}

Drop(m, k) == [x \in (DOMAIN m) \ {k} |-> m[x]]

HasDuplicates(s) == \E i, j \in 1..Len(s) : i < j /\ s[i] = s[j]

Frame(idx, cols, rws) == [err |-> "none", index |-> idx, columns |-> cols, rows |-> rws]

Raise(kind) == [err |-> kind, index |-> <<>>, columns |-> {}, rows |-> <<>>]

(* records[k] = v on a dict kept as a sequence of <<key, value>> pairs:    *)
(* an existing key keeps its position and takes the new value.             *)
DictSetDefault(d, k, v) ==
    IF \E i \in 1..Len(d) : d[i][1] = k THEN d ELSE Append(d, <<k, v>>)

DictSet(d, k, v) ==
    IF \E i \in 1..Len(d) : d[i][1] = k
    THEN [i \in 1..Len(d) |-> IF d[i][1] = k THEN <<k, v>> ELSE d[i]]
    ELSE Append(d, <<k, v>>)

RECURSIVE SelectNonEmpty(_)
SelectNonEmpty(d) ==
    IF d = <<>> THEN <<>>
    ELSE IF DOMAIN d[1][2] = {} THEN SelectNonEmpty(Tail(d))
    ELSE <<d[1]>> \o SelectNonEmpty(Tail(d))

(* pd.DataFrame.from_dict(records, orient="index") on a dict of dicts: the *)
(* columns are the union of the inner keys, a key whose inner dict is      *)
(* empty gets no row, a field an inner dict lacks is NaN.                  *)
FromDictIndex(d) ==
    LET cols == UNION {DOMAIN d[i][2] : i \in 1..Len(d)}
        kept == SelectNonEmpty(d)
    IN  Frame([i \in 1..Len(kept) |-> kept[i][1]],
              cols,
              [i \in 1..Len(kept) |->
                  [c \in cols |-> IF c \in DOMAIN kept[i][2] THEN kept[i][2][c] ELSE NaN]])

-----------------------------------------------------------------------------
(* extract_results *)

RECURSIVE extract_loop(_, _)
extract_loop(pages, acc) ==
    IF pages = <<>> THEN [err |-> "none", value |-> acc]
    ELSE IF "results" \notin DOMAIN pages[1] THEN [err |-> "KeyError", value |-> <<>>]
    ELSE extract_loop(Tail(pages), acc \o pages[1]["results"])

extract_results_last_page(r) ==
    IF \E p \in 1..Len(r) : "results" \notin DOMAIN r[p] THEN [err |-> "KeyError", value |-> <<>>]
    ELSE IF r = <<>> THEN [err |-> "none", value |-> <<>>]
    ELSE [err |-> "none", value |-> r[Len(r)]["results"]]

extract_results(r) == extract_loop(r, <<>>)

-----------------------------------------------------------------------------
(* The per-election extractors *)

Exclude == {"election_name", "district", "voting_methods", "third_party_verified"}

(* pd.DataFrame.from_records(results, index="election_id", exclude=...):   *)
(* one row per record, in input order; the columns are the union of the    *)
(* records' keys; looking up the index column, or dropping an excluded     *)
(* name that no record has, is a KeyError.                                 *)
tidy_elections_last_wins(rs) ==
    LET keys == UNION {DOMAIN rs[i] : i \in 1..Len(rs)}
        cols == keys \ (Exclude \cup {"election_id"})
        kept == SelectSeq([i \in 1..Len(rs) |-> <<i, rs[i]>>],
                          LAMBDA x : \A k \in (x[1] + 1)..Len(rs) :
                                         rs[k]["election_id"] # x[2]["election_id"])
    IN  IF "election_id" \notin keys THEN Raise("KeyError")
        ELSE IF \E x \in Exclude : x \notin keys THEN Raise("KeyError")
        ELSE Frame([i \in 1..Len(kept) |-> kept[i][2]["election_id"]],
                   cols,
                   [i \in 1..Len(kept) |->
                       [c \in cols |-> IF c \in DOMAIN kept[i][2] THEN kept[i][2][c] ELSE NaN]])

tidy_elections(rs) ==
    LET keys == UNION {DOMAIN rs[i] : i \in 1..Len(rs)}
        cols == keys \ (Exclude \cup {"election_id"})
    IN  IF "election_id" \notin keys THEN Raise("KeyError")
        ELSE IF \E x \in Exclude : x \notin keys THEN Raise("KeyError")
        ELSE Frame([i \in 1..Len(rs) |-> rs[i]["election_id"]],
                   cols,
                   [i \in 1..Len(rs) |->
                       [c \in cols |-> IF c \in DOMAIN rs[i] THEN rs[i][c] ELSE NaN]])

RECURSIVE names_loop(_, _)
names_loop(rs, records) ==
    IF rs = <<>> THEN [err |-> "none", value |-> records]
    ELSE IF \/ "election_id" \notin DOMAIN rs[1]
            \/ "election_name" \notin DOMAIN rs[1]
         THEN [err |-> "KeyError", value |-> <<>>]
    ELSE IF "en_US" \notin DOMAIN rs[1]["election_name"]
         THEN [err |-> "KeyError", value |-> <<>>]
    ELSE names_loop(Tail(rs),
                    DictSet(records, rs[1]["election_id"], rs[1]["election_name"]["en_US"]))

tidy_names(rs) ==
    LET d == names_loop(rs, <<>>)
    IN  IF d.err # "none" THEN Raise(d.err)
        ELSE Frame([i \in 1..Len(d.value) |-> d.value[i][1]],
                   {"election_name"},
                   [i \in 1..Len(d.value) |-> [c \in {"election_name"} |-> d.value[i][2]]])

(* for result in results: records[result["election_id"]] = result[key] *)
RECURSIVE submapping_loop(_, _, _)
submapping_loop(rs, key, records) ==
    IF rs = <<>> THEN [err |-> "none", value |-> records]
    ELSE IF "election_id" \notin DOMAIN rs[1] \/ key \notin DOMAIN rs[1]
         THEN [err |-> "KeyError", value |-> <<>>]
    ELSE submapping_loop(Tail(rs), key, DictSet(records, rs[1]["election_id"], rs[1][key]))

tidy_districts(rs) ==
    LET d == submapping_loop(rs, "district", <<>>)
    IN  IF d.err # "none" THEN Raise(d.err) ELSE FromDictIndex(d.value)

RenameVerified(c) ==
    IF c = "is_verified" THEN "verified"
    ELSE IF c = "date" THEN "verified_date"
    ELSE c

(* .rename(columns=columns) *)
RenameVerifiedColumns(t) ==
    LET cols == {RenameVerified(c) : c \in t.columns}
    IN  Frame(t.index, cols,
              [i \in 1..Len(t.rows) |->
                  [c \in cols |-> t.rows[i][CHOOSE o \in t.columns : RenameVerified(o) = c]]])

tidy_verified(rs) ==
    LET d == submapping_loop(rs, "third_party_verified", <<>>)
    IN  IF d.err # "none" THEN Raise(d.err)
        ELSE RenameVerifiedColumns(FromDictIndex(d.value))

-----------------------------------------------------------------------------
(* pd.concat([e, n, d, v], axis=1) *)

RECURSIVE UnionIndex(_, _)
UnionIndex(acc, idx) ==
    IF idx = <<>> THEN acc
    ELSE IF idx[1] \in Range(acc) THEN UnionIndex(acc, Tail(idx))
    ELSE UnionIndex(Append(acc, idx[1]), Tail(idx))

RECURSIVE UnionIndexes(_, _)
UnionIndexes(acc, ts) ==
    IF ts = <<>> THEN acc ELSE UnionIndexes(UnionIndex(acc, ts[1].index), Tail(ts))

(* The frame whose column is c; the frames' columns are disjoint. *)
Owner(ts, c) == CHOOSE k \in 1..Len(ts) : c \in ts[k].columns

(* The cell of frame t at label id, NaN when t has no such label. *)
CellAt(t, id, c) ==
    IF id \in Range(t.index)
    THEN t.rows[CHOOSE i \in 1..Len(t.index) : t.index[i] = id][c]
    ELSE NaN

concat_inner(ts) ==
    LET cols == UNION {ts[k].columns : k \in 1..Len(ts)}
        idx  == SelectSeq(ts[1].index,
                          LAMBDA id : \A k \in 1..Len(ts) : id \in Range(ts[k].index))
    IN  IF \E k \in 1..Len(ts) : HasDuplicates(ts[k].index)
        THEN Raise("InvalidIndexError")
        ELSE Frame(idx, cols,
                   [i \in 1..Len(idx) |->
                       [c \in cols |-> CellAt(ts[Owner(ts, c)], idx[i], c)]])

(* Frames with equal indexes are put side by side; otherwise every frame   *)
(* is reindexed to the union of the labels, which a frame with a repeated  *)
(* label cannot be.                                                        *)
concat(ts) ==
    LET cols == UNION {ts[k].columns : k \in 1..Len(ts)}
    IN  IF \A k \in 1..Len(ts) : ts[k].index = ts[1].index
        THEN Frame(ts[1].index, cols,
                   [i \in 1..Len(ts[1].index) |->
                       [c \in cols |-> ts[Owner(ts, c)].rows[i][c]]])
        ELSE IF \E k \in 1..Len(ts) : HasDuplicates(ts[k].index)
        THEN Raise("InvalidIndexError")
        ELSE LET idx == UnionIndexes(<<>>, ts)
             IN  Frame(idx, cols,
                       [i \in 1..Len(idx) |->
                           [c \in cols |-> CellAt(ts[Owner(ts, c)], idx[i], c)]])

process_elections(rs) ==
    LET e == tidy_elections(rs)
        n == tidy_names(rs)
        d == tidy_districts(rs)
        v == tidy_verified(rs)
    IN  IF e.err # "none" THEN e
        ELSE IF n.err # "none" THEN n
        ELSE IF d.err # "none" THEN d
        ELSE IF v.err # "none" THEN v
        ELSE concat(<<e, n, d, v>>)

-----------------------------------------------------------------------------
(* Voting methods *)

Instructions == <<"instructions">>

flatten_tolerant(m) ==
    [err |-> "none",
     value |-> [k \in DOMAIN m \cup {Instructions} |->
                   IF k # Instructions THEN m[k]
                   ELSE IF Instructions \notin DOMAIN m THEN ""
                   ELSE IF "voting-id" \notin DOMAIN m[Instructions] THEN ""
                   ELSE IF "en_US" \notin DOMAIN m[Instructions]["voting-id"] THEN ""
                   ELSE m[Instructions]["voting-id"]["en_US"]]]

flatten_only_instructions(m) ==
    IF Instructions \notin DOMAIN m THEN [err |-> "KeyError", value |-> EmptyMap]
    ELSE IF "voting-id" \notin DOMAIN m[Instructions]
         THEN [err |-> "KeyError", value |-> EmptyMap]
    ELSE IF "en_US" \notin DOMAIN m[Instructions]["voting-id"]
         THEN [err |-> "KeyError", value |-> EmptyMap]
    ELSE [err |-> "none",
          value |-> [k \in {Instructions} |-> m[Instructions]["voting-id"]["en_US"]]]

flatten_voting_method(m) ==
    IF Instructions \notin DOMAIN m THEN [err |-> "KeyError", value |-> EmptyMap]
    ELSE IF "voting-id" \notin DOMAIN m[Instructions]
         THEN [err |-> "KeyError", value |-> EmptyMap]
    ELSE IF "en_US" \notin DOMAIN m[Instructions]["voting-id"]
         THEN [err |-> "KeyError", value |-> EmptyMap]
    ELSE [err |-> "none",
          value |-> [k \in DOMAIN m |->
                        IF k = Instructions THEN m[Instructions]["voting-id"]["en_US"]
                        ELSE m[k]]]

(* for i, method in enumerate(result["voting_methods"]) *)
RECURSIVE methods_inner(_, _, _, _)
methods_inner(id, ms, i, records) ==
    IF i > Len(ms) THEN [err |-> "none", value |-> records]
    ELSE LET fm == flatten_voting_method(ms[i])
         IN  IF fm.err # "none" THEN [err |-> fm.err, value |-> <<>>]
             ELSE methods_inner(id, ms, i + 1, DictSet(records, <<id, i - 1>>, fm.value))

RECURSIVE methods_loop(_, _)
methods_loop(rs, records) ==
    IF rs = <<>> THEN [err |-> "none", value |-> records]
    ELSE IF "voting_methods" \notin DOMAIN rs[1]
         THEN [err |-> "KeyError", value |-> <<>>]
    ELSE IF rs[1]["voting_methods"] = <<>> THEN methods_loop(Tail(rs), records)
    ELSE IF "election_id" \notin DOMAIN rs[1] THEN [err |-> "KeyError", value |-> <<>>]
    ELSE LET inner == methods_inner(rs[1]["election_id"], rs[1]["voting_methods"], 1, records)
         IN  IF inner.err # "none" THEN inner
             ELSE methods_loop(Tail(rs), inner.value)

(* .rename_axis(["election_id", "method_id"]): two names fit the two-level *)
(* index built from (election_id, i) keys; the frame of an empty dict has  *)
(* a one-level index, for which two names are a ValueError.                *)
RenameAxisPair(t) == IF t.index = <<>> THEN Raise("ValueError") ELSE t

(* lambda x: f"method_{x}".replace("-", "_") *)
MethodColumnKeepHyphen(x) == <<"method", "_">> \o x

MethodColumn(x) ==
    LET s == <<"method", "_">> \o x
    IN  [i \in 1..Len(s) |-> IF s[i] = "-" THEN "_" ELSE s[i]]

(* .rename(columns=lambda ...) *)
RenameMethodColumns(t) ==
    LET cols == {MethodColumn(c) : c \in t.columns}
    IN  Frame(t.index, cols,
              [i \in 1..Len(t.rows) |->
                  [c \in cols |-> t.rows[i][CHOOSE o \in t.columns : MethodColumn(o) = c]]])

tidy_voting_methods(rs) ==
    LET d == methods_loop(rs, <<>>)
    IN  IF d.err # "none" THEN Raise(d.err)
        ELSE LET t == RenameAxisPair(FromDictIndex(d.value))
             IN  IF t.err # "none" THEN t ELSE RenameMethodColumns(t)

process_voting_methods(rs) == tidy_voting_methods(rs)

-----------------------------------------------------------------------------
(* Inputs *)

SeqUpTo(S, n) == UNION {[1..k -> S] : k \in 0..n}

Ids == 1..MaxId

GoodMethod ==
    (Instructions :> ("voting-id" :> ("en_US" :> "bring id")))
    @@ (<<"excuse", "-", "required">> :> "no")
    @@ (<<"type">> :> "early")

AltMethod ==
    (Instructions :> ("voting-id" :> ("en_US" :> "no id")))
    @@ (<<"start">> :> "d1")
    @@ (<<"primary">> :> "yes")

(* Methods without the path instructions -> voting-id -> en_US. *)
BadMethods ==
    { (<<"type">> :> "early"),
      (Instructions :> EmptyMap) @@ (<<"type">> :> "early"),
      (Instructions :> ("voting-id" :> EmptyMap)) @@ (<<"type">> :> "early") }

MethodList(k) == [i \in 1..k |-> IF i % 2 = 1 THEN GoodMethod ELSE AltMethod]

(* A complete result record. *)
Base(id, val) ==
    [election_id |-> id,
     election_type |-> val,
     election_name |-> [en_US |-> val],
     district |-> [district_type |-> val, district_name |-> "n"],
     third_party_verified |-> [is_verified |-> val, date |-> "d", reference |-> "r"],
     voting_methods |-> <<GoodMethod>>]

Page(rs) == [results |-> rs]

(* A page without its results list. *)
BrokenPage == EmptyMap

(* Complete records and records with one part missing or empty. *)
RunResults ==
    LET b(id) == Base(id, "a")
    IN  UNION { {[b(id) EXCEPT !["voting_methods"] = MethodList(k)] : k \in 0..MaxMethods}
                \cup {[b(id) EXCEPT !["voting_methods"] = <<m>>] : m \in BadMethods}
                \cup {Drop(b(id), k) : k \in {"voting_methods", "third_party_verified", "district"}}
                \cup {[b(id) EXCEPT !["election_name"] = EmptyMap]}
              : id \in Ids }

(* Complete records whose district or verification mapping may be empty. *)
ElectionResults ==
    { [Base(id, val) EXCEPT !["district"] = IF d THEN @ ELSE EmptyMap,
                            !["third_party_verified"] = IF v THEN @ ELSE EmptyMap]
      : id \in Ids, val \in {"a", "b"}, d \in BOOLEAN, v \in BOOLEAN }

(* The pagings of a result list: one page, one page per result, and one    *)
(* page followed by a page that has no results list.                       *)
Pagings(rs) ==
    { <<Page(rs)>>, [i \in 1..Len(rs) |-> Page(<<rs[i]>>)], <<Page(rs), BrokenPage>> }

ExtractPages == {Page(rs) : rs \in SeqUpTo({Base(id, "a") : id \in Ids}, ExtMaxPageLen)}
                    \cup {BrokenPage}

(* Method mappings for flatten_voting_method. *)
FlattenMethods ==
    LET fields == {<<"excuse", "-", "required">>, <<"type">>, <<"start">>}
        instr  == { EmptyMap,
                    ("voting-id" :> EmptyMap),
                    ("voting-id" :> ("en_US" :> "x")),
                    ("voting-id" :> ("en_US" :> "y")),
                    ("voting-id" :> (("en_US" :> "x") @@ ("es_US" :> "z"))),
                    ("voting-id" :> ("en_US" :> "x")) @@ ("ballot" :> ("en_US" :> "w")) }
    IN  UNION { {[k \in fs |-> "v"]} \cup {(Instructions :> i) @@ [k \in fs |-> "v"] : i \in instr}
              : fs \in SUBSET fields }

-----------------------------------------------------------------------------
(* The command-line run (process.py, __main__) *)

Pending == Raise("pending")

NoFlat == [err |-> "pending", value |-> EmptyMap]

Start ==
    /\ pc = "extract"
    /\ results = <<>>
    /\ elections = Pending
    /\ methods = Pending
    /\ files = <<>>
    /\ err = "none"
    /\ method = EmptyMap
    /\ flat = NoFlat

Init ==
    /\ \E k \in 0..MaxResults : \E rs \in [1..k -> RunResults] : raw \in Pagings(rs)
    /\ Start

InitElections ==
    /\ \E k \in 0..MaxResults : \E rs \in [1..k -> ElectionResults] : raw \in Pagings(rs)
    /\ Start

InitExtract ==
    /\ \E k \in 0..ExtMaxPages : raw \in [1..k -> ExtractPages]
    /\ Start

InitFlatten ==
    /\ pc = "flatten"
    /\ raw = <<>>
    /\ results = <<>>
    /\ elections = Pending
    /\ methods = Pending
    /\ files = <<>>
    /\ err = "none"
    /\ method \in FlattenMethods
    /\ flat = NoFlat

ExtractResults ==
    /\ pc = "extract"
    /\ LET x == extract_results(raw)
       IN  IF x.err # "none"
           THEN /\ pc' = "aborted"
                /\ err' = x.err
                /\ results' = results
           ELSE /\ pc' = "elections"
                /\ err' = err
                /\ results' = x.value
    /\ UNCHANGED <<raw, elections, methods, files, method, flat>>

ProcessElectionsThenWrite ==
    /\ pc = "elections"
    /\ LET t == process_elections(results)
       IN  IF t.err # "none"
           THEN /\ pc' = "aborted"
                /\ err' = t.err
                /\ elections' = elections
                /\ files' = files
           ELSE /\ pc' = "methods"
                /\ err' = err
                /\ elections' = t
                /\ files' = Append(files, "elections.csv")
    /\ UNCHANGED <<raw, results, methods, method, flat>>

ProcessElections ==
    /\ pc = "elections"
    /\ LET t == process_elections(results)
       IN  IF t.err # "none"
           THEN /\ pc' = "aborted"
                /\ err' = t.err
                /\ elections' = elections
           ELSE /\ pc' = "methods"
                /\ err' = err
                /\ elections' = t
    /\ UNCHANGED <<raw, results, methods, files, method, flat>>

ProcessVotingMethods ==
    /\ pc = "methods"
    /\ LET t == process_voting_methods(results)
       IN  IF t.err # "none"
           THEN /\ pc' = "aborted"
                /\ err' = t.err
                /\ methods' = methods
           ELSE /\ pc' = "write_elections"
                /\ err' = err
                /\ methods' = t
    /\ UNCHANGED <<raw, results, elections, files, method, flat>>

WriteElections ==
    /\ pc = "write_elections"
    /\ files' = Append(files, "elections.csv")
    /\ pc' = "write_methods"
    /\ UNCHANGED <<raw, results, elections, methods, err, method, flat>>

WriteMethods ==
    /\ pc = "write_methods"
    /\ files' = Append(files, "voting_methods.csv")
    /\ pc' = "done"
    /\ UNCHANGED <<raw, results, elections, methods, err, method, flat>>

Next ==
    \/ ExtractResults
    \/ ProcessElections
    \/ ProcessVotingMethods
    \/ WriteElections
    \/ WriteMethods

Spec == Init /\ [][Next]_vars

SpecElections == InitElections /\ [][Next]_vars

SpecExtract == InitExtract /\ [][Next]_vars

(* flatten_voting_method applied to one method mapping *)
Flatten ==
    /\ pc = "flatten"
    /\ flat' = flatten_voting_method(method)
    /\ pc' = "flattened"
    /\ UNCHANGED <<raw, results, elections, methods, files, err, method>>

NextFlatten == Flatten

SpecFlatten == InitFlatten /\ [][NextFlatten]_vars

-----------------------------------------------------------------------------
(* Vocabulary of the properties *)

(* extract_results has returned the result list. *)
Extracted ==
    /\ pc \notin {"extract", "flatten", "flattened"}
    /\ \A p \in 1..Len(raw) : "results" \in DOMAIN raw[p]

Written == {"write_elections", "write_methods", "done"}

IdsOf(rs) == [i \in 1..Len(rs) |-> rs[i]["election_id"]]

(* The last record of rs with election_id id. *)
LastOf(rs, id) ==
    rs[CHOOSE j \in 1..Len(rs) :
          /\ rs[j]["election_id"] = id
          /\ \A k \in (j + 1)..Len(rs) : rs[k]["election_id"] # id]

Count(t, key) == Cardinality({k \in 1..Len(t.index) : t.index[k] = key})

RowOf(t, key) == t.rows[CHOOSE k \in 1..Len(t.index) : t.index[k] = key]

RECURSIVE TotalLen(_, _)
TotalLen(pages, n) == IF n = 0 THEN 0 ELSE TotalLen(pages, n - 1) + Len(pages[n]["results"])

HasPath(m) ==
    /\ Instructions \in DOMAIN m
    /\ "voting-id" \in DOMAIN m[Instructions]
    /\ "en_US" \in DOMAIN m[Instructions]["voting-id"]

MissingElectionPart(rs) ==
    \E i \in 1..Len(rs) :
        \/ "third_party_verified" \notin DOMAIN rs[i]
        \/ "district" \notin DOMAIN rs[i]
        \/ "en_US" \notin DOMAIN rs[i]["election_name"]

MissingInstructions(rs) ==
    \E i \in 1..Len(rs) :
        /\ "voting_methods" \in DOMAIN rs[i]
        /\ \E j \in 1..Len(rs[i]["voting_methods"]) : ~HasPath(rs[i]["voting_methods"][j])

-----------------------------------------------------------------------------
(* C7: once extraction has run on pages that all have a results list, the  *)
(* extracted sequence is the page lists laid end to end: its length is the *)
(* sum of the page lengths and the j-th result of page p sits at position  *)
(* (total length of the pages before p) + j.                               *)
C7_ExtractConcatenates ==
    Extracted =>
        /\ Len(results) = TotalLen(raw, Len(raw))
        /\ \A p \in 1..Len(raw) : \A j \in 1..Len(raw[p]["results"]) :
               results[TotalLen(raw, p - 1) + j] = raw[p]["results"][j]

C7_Witness ==
    /\ Extracted
    /\ Len(raw) = 2
    /\ raw[1] = Page(<<>>)
    /\ "results" \in DOMAIN raw[2]
    /\ Len(results) = 2
    /\ results[1] # results[2]

(* C10: a file is written only after both tables were computed, an aborted *)
(* run has written nothing, elections.csv is written first, and a finished *)
(* run has written both files.                                             *)
C10_AllOrNothing ==
    /\ files \in {<<>>, <<"elections.csv">>, <<"elections.csv", "voting_methods.csv">>}
    /\ files # <<>> => (elections.err = "none" /\ methods.err = "none" /\ pc \in Written)
    /\ pc = "aborted" => files = <<>>
    /\ pc = "write_elections" => files = <<>>
    /\ pc = "write_methods" => files = <<"elections.csv">>
    /\ pc = "done" => files = <<"elections.csv", "voting_methods.csv">>

C10_Witness ==
    /\ pc = "aborted"
    /\ elections.err = "none"
    /\ Len(elections.index) > 0
    /\ methods = Pending
    /\ files = <<>>

-----------------------------------------------------------------------------
(* What a row must hold to carry the values of record r *)

DistrictFields == {"district_type", "district_name"}

VerifiedFields == {"is_verified", "date", "reference"}

(* The renaming as the column contract states it. *)
ExpectedVerifiedColumn(f) ==
    CASE f = "is_verified" -> "verified"
      [] f = "date" -> "verified_date"
      [] OTHER -> f

CoreCarries(row, r) == row["election_type"] = r["election_type"]

NameCarries(row, r) == row["election_name"] = r["election_name"]["en_US"]

DistrictCarries(row, cols, r) ==
    /\ \A f \in DOMAIN r["district"] : row[f] = r["district"][f]
    /\ \A f \in (cols \cap DistrictFields) \ DOMAIN r["district"] : row[f] = NaN

VerifiedCarries(row, cols, r) ==
    /\ \A f \in DOMAIN r["third_party_verified"] :
           row[ExpectedVerifiedColumn(f)] = r["third_party_verified"][f]
    /\ \A f \in VerifiedFields \ DOMAIN r["third_party_verified"] :
           ExpectedVerifiedColumn(f) \in cols => row[ExpectedVerifiedColumn(f)] = NaN

RowCarries(row, cols, r) ==
    /\ CoreCarries(row, r)
    /\ NameCarries(row, r)
    /\ DistrictCarries(row, cols, r)
    /\ VerifiedCarries(row, cols, r)

C5_OuterJoin ==
    (Extracted /\ elections.err = "none") =>
        LET ts == <<tidy_elections(results), tidy_names(results),
                    tidy_districts(results), tidy_verified(results)>>
        IN  \A k \in 1..4 :
                /\ Range(ts[k].index) \subseteq Range(elections.index)
                /\ ts[k].columns \subseteq elections.columns
                /\ \A id \in Range(elections.index) : \A c \in ts[k].columns :
                       RowOf(elections, id)[c] =
                           IF id \in Range(ts[k].index) THEN RowOf(ts[k], id)[c] ELSE NaN

C5_Witness ==
    /\ pc = "methods"
    /\ \E id \in Range(elections.index) :
          /\ id \notin Range(tidy_districts(results).index)
          /\ id \in Range(tidy_verified(results).index)
          /\ "district_type" \in elections.columns
          /\ RowOf(elections, id)["district_type"] = NaN

-----------------------------------------------------------------------------
(* Voting-methods properties *)

(* The column of a method field as the column contract states it. *)
ExpectedMethodColumn(f) ==
    CASE f = <<"excuse", "-", "required">> -> <<"method", "_", "excuse", "_", "required">>
      [] OTHER -> <<"method", "_">> \o f

MethodsOf(r) == IF "voting_methods" \in DOMAIN r THEN r["voting_methods"] ELSE <<>>

(* Every record has its voting_methods list and every method its path. *)
CompleteMethods(rs) ==
    \A i \in 1..Len(rs) :
        /\ "voting_methods" \in DOMAIN rs[i]
        /\ \A j \in 1..Len(rs[i]["voting_methods"]) : HasPath(rs[i]["voting_methods"][j])

AllMethods(rs) == UNION {Range(MethodsOf(rs[i])) : i \in 1..Len(rs)}

ExpectedKeys(rs) ==
    UNION {{<<rs[i]["election_id"], j - 1>> : j \in 1..Len(MethodsOf(rs[i]))} : i \in 1..Len(rs)}

(* C6: the verification table's columns are the fields of the              *)
(* third_party_verified mappings with is_verified named verified and date  *)
(* named verified_date, each holding its field's value; the voting-methods *)
(* table's columns are exactly method_<f>, hyphens as underscores, for the *)
(* fields f of the methods, each holding its field's value (the en_US      *)
(* string for instructions) and NaN where the method has no such field.    *)
C6_ColumnRenaming ==
    Extracted =>
        LET v == tidy_verified(results)
            t == tidy_voting_methods(results)
        IN  /\ v.err = "none" =>
                  /\ v.columns = {ExpectedVerifiedColumn(f) :
                                     f \in UNION {DOMAIN results[i]["third_party_verified"] :
                                                     i \in 1..Len(results)}}
                  /\ \A id \in Range(v.index) :
                         VerifiedCarries(RowOf(v, id), v.columns, LastOf(results, id))
            /\ t.err = "none" =>
                  /\ t.columns = {ExpectedMethodColumn(f) :
                                     f \in UNION {DOMAIN m : m \in AllMethods(results)}}
                  /\ \A i \in 1..Len(results) :
                         (\A k \in 1..Len(results) :
                             k # i => results[k]["election_id"] # results[i]["election_id"]) =>
                             \A j \in 1..Len(results[i]["voting_methods"]) :
                                 LET m   == results[i]["voting_methods"][j]
                                     row == RowOf(t, <<results[i]["election_id"], j - 1>>)
                                 IN  /\ \A f \in DOMAIN m \ {Instructions} :
                                            row[ExpectedMethodColumn(f)] = m[f]
                                     /\ row[<<"method", "_", "instructions">>] =
                                            m[Instructions]["voting-id"]["en_US"]
                                     /\ \A c \in t.columns :
                                            c \notin {ExpectedMethodColumn(f) : f \in DOMAIN m}
                                                => row[c] = NaN

C6_Witness ==
    /\ pc = "done"
    /\ <<"method", "_", "excuse", "_", "required">> \in methods.columns
    /\ <<"method", "_", "start">> \in methods.columns
    /\ Len(methods.index) >= 2
    /\ {"verified", "verified_date", "reference"} \subseteq elections.columns

(* C2 as stated: for every input whose records all have their methods list *)
(* and whose methods all have their instructions path, once the elections  *)
(* table is returned and process_voting_methods has run, the methods table *)
(* exists and its keys are exactly the pairs (election_id, i) for the      *)
(* positions i = 0..k-1 of each election's k methods, each key once, so    *)
(* that an election without methods has no row.                            *)
C2_Original ==
    (/\ Extracted
     /\ CompleteMethods(results)
     /\ elections.err = "none"
     /\ pc \notin {"elections", "methods"}) =>
        /\ methods.err = "none"
        /\ Range(methods.index) = ExpectedKeys(results)
        /\ ~HasDuplicates(methods.index)

(* C3 as stated: when a record has no voting methods, its list being empty *)
(* or absent, and the methods of the other records have their instructions *)
(* path, then once the elections table is returned and                     *)
(* process_voting_methods has run, the methods table exists, it has no row *)
(* for that record's election_id unless another record with the same       *)
(* election_id has methods, and it has the rows of the other records.      *)
C3_Original ==
    (/\ Extracted
     /\ \A m \in AllMethods(results) : HasPath(m)
     /\ elections.err = "none"
     /\ pc \notin {"elections", "methods"}) =>
        \A i \in 1..Len(results) :
            MethodsOf(results[i]) = <<>> =>
                /\ methods.err = "none"
                /\ \A key \in Range(methods.index) :
                       key[1] = results[i]["election_id"] => key \in ExpectedKeys(results)
                /\ ExpectedKeys(results) \subseteq Range(methods.index)

-----------------------------------------------------------------------------
(* flatten_voting_method properties *)

(* The inverse of flattening: the instructions string goes back under      *)
(* instructions -> voting-id -> en_US.                                     *)
Renest(f) ==
    [k \in DOMAIN f |->
        IF k = Instructions THEN ("voting-id" :> ("en_US" :> f[Instructions])) ELSE f[k]]

(* The structure the docstring of flatten_voting_method documents. *)
OnlyEnglishVotingId(m) ==
    /\ Instructions \in DOMAIN m
    /\ DOMAIN m[Instructions] = {"voting-id"}
    /\ DOMAIN m[Instructions]["voting-id"] = {"en_US"}

(* C8 as stated: for every method mapping that has the path                *)
(* instructions -> voting-id -> en_US, re-nesting the flattened mapping    *)
(* recovers the mapping.                                                   *)
C8_Original ==
    (pc = "flattened" /\ HasPath(method)) =>
        /\ flat.err = "none"
        /\ Renest(flat.value) = method

(* C8 amended: for a method mapping that has the path, flattening keeps    *)
(* the key set, every field other than instructions with its value, and    *)
(* the en_US string as instructions; re-nesting recovers the mapping when  *)
(* its instructions hold voting-id -> en_US and nothing else.              *)
C8_RoundTrip ==
    (pc = "flattened" /\ HasPath(method)) =>
        /\ flat.err = "none"
        /\ DOMAIN flat.value = DOMAIN method
        /\ \A k \in DOMAIN method \ {Instructions} : flat.value[k] = method[k]
        /\ flat.value[Instructions] = method[Instructions]["voting-id"]["en_US"]
        /\ OnlyEnglishVotingId(method) => Renest(flat.value) = method

C8_Witness ==
    /\ pc = "flattened"
    /\ OnlyEnglishVotingId(method)
    /\ Cardinality(DOMAIN method) = 4
    /\ flat.err = "none"

====
